---- MODULE Spec2Model ----
(***************************************************************************)
(* Model of Assets/Scripts/Student/robot.py: the per-agent decision        *)
(* decide_action (sticky target, reservation set, tournament, lifecycle    *)
(* action) and the batch wrapper decide_all, driven tick after tick by a   *)
(* host that feeds back each agent's returned target_id.                   *)
(*                                                                         *)
(* Positions live on an integer grid, so every squared distance is an      *)
(* integer and the float comparisons of the code are exact:                *)
(*   math.isclose(a, b, rel_tol=0.01)  <=>  100*|a-b| <= max(a, b)         *)
(*   math.hypot(dx, dz) < t            <=>  dx*dx + dz*dz < t*t            *)
(* Agent ids are the strings "Robot_<n>"; the model keeps n and compares   *)
(* the decimal digit strings the way Python compares str.                  *)
(***************************************************************************)
EXTENDS Integers, Sequences, FiniteSets, TLC

\* ------------------------------------------------------------------ bounds
GridStep == 10      \* distance between two grid columns
MaxX == 2           \* grid columns 0..MaxX
MaxEvents == 1      \* world changes (moves, pickups, ...) per behaviour
MaxHauls == 1       \* further moves of an agent that carries an item
FineUnit == 4       \* grid steps per unit length in a direct call of a function

\* --------------------------------------------------------- program constants
RelTolPercent == 1          \* rel_tol=0.01
PickupThresholdSq == 1      \* near_item threshold=1.0, squared
DropThresholdSqPct == 36    \* distance_to_target < 0.6, squared, in hundredths
ObstacleReachSq4 == 9       \* distance < 1.5, squared, in quarters
PeerReachSq4 == 1           \* distance < 0.5, squared, in quarters

\* ------------------------------------------------------------------ inputs
AgentIds == {1, 2, 10}      \* "Robot_1", "Robot_2", "Robot_10"
NoTarget == "0"
Xs == {GridStep * i : i \in 0..MaxX}
Zs == {0, 1}
Positions == Xs \X Zs
ItemList == << [id |-> "1", pos |-> <<GridStep, 0>>],
               [id |-> "2", pos |-> <<2 * GridStep, 0>>] >>
ItemIds == {ItemList[k].id : k \in 1..Len(ItemList)}
ZoneLists == { << <<0, 0>>, <<2 * GridStep, 0>> >> }
ObstacleList == << <<0, 0>>, <<0, 1>>, <<2 * GridStep, 1>> >>
FirstOrder == << 1, 2, 10 >>
SpawnPoint == << GridStep, 1 >>

VARIABLES
    pos,            \* agent -> its position (my_x, my_z)
    carrying,       \* agent -> is_carrying
    target,         \* agent -> the target_id it holds from the previous tick
    seen,           \* agent -> ids of the items in its perception['items']
    missing,        \* agents whose all_agents entry lacks x and z
    order,          \* enumeration order of the keys of all_agents
    deposites,      \* perception['deposites']
    events,         \* world changes so far
    pc,             \* "idle" between batches, "batch" inside decide_all
    pending,        \* agents the loop of decide_all has not reached yet
    all_agents,     \* the shared all_agents dict of the running batch
    all_decisions,  \* decide_all's result dict
    call,           \* a direct call of one function: its name and arguments
    result          \* what that call returned

vars == << pos, carrying, target, seen, missing, order, deposites,
           events, pc, pending, all_agents, all_decisions, call, result >>

\* No direct call: the robots' world runs.
NoCall == [fn |-> "none"]

\* Grid steps per unit length of the program: the robots' world stands on
\* the whole-number points, a direct call takes its arguments on a finer grid.
Unit == IF call.fn = "avoidance" THEN FineUnit ELSE 1

\* ----------------------------------------------------------------- helpers
Abs(n) == IF n < 0 THEN -n ELSE n

Max2(a, b) == IF a < b THEN b ELSE a

Dist2(p, q) == (p[1] - q[1]) * (p[1] - q[1]) + (p[2] - q[2]) * (p[2] - q[2])

IsClose(a, b) == 100 * Abs(a - b) <= RelTolPercent * Max2(a, b)

RECURSIVE Digits(_)
Digits(n) == IF n < 10 THEN << n >> ELSE Append(Digits(n \div 10), n % 10)

RECURSIVE LexLess(_, _, _)
LexLess(s, t, k) ==
    IF k > Len(t) THEN FALSE
    ELSE IF k > Len(s) THEN TRUE
    ELSE IF s[k] # t[k] THEN s[k] < t[k]
    ELSE LexLess(s, t, k + 1)

\* str(a) < str(b) for the ids "Robot_a", "Robot_b"
StrLess(a, b) == LexLess(Digits(a), Digits(b), 1)

\* get_id_int: int(id.replace("Robot_", "")) of a well-formed id.  decide_action
\* never calls it: line 130 compares the id strings.
get_id_int(a) == a

\* ------------------------------------------------------------- perception
\* One entry of the shared all_agents dict.
Entry(a) ==
    [id |-> a, hasPos |-> a \notin missing, pos |-> pos[a],
     is_carrying |-> carrying[a], current_target_id |-> target[a]]

\* The all_agents dict the host builds for a batch, in enumeration order.
BuildAllAgents == [k \in 1..Len(order) |-> Entry(order[k])]

IsVisibleTo(a, item) == item.id \in seen[a]

\* The perception dict of agent a in a batch whose shared dict is agents.
Perception(a, agents) ==
    [my_id |-> a, my_pos |-> pos[a], spawn |-> SpawnPoint,
     is_carrying |-> carrying[a],
     items |-> SelectSeq(ItemList, LAMBDA item : IsVisibleTo(a, item)),
     deposites |-> deposites,
     obstacles |-> ObstacleList,
     all_agents |-> agents,
     current_target_id |-> target[a]]

\* ---------------------------------------------------------- decide_action
\* target_id = "0" before any branch runs
DefaultTargetIdStale(p) == p.current_target_id

DefaultTargetId(p) == NoTarget

\* target_pos = spawn before any branch runs
DefaultTargetPosHere(p) == p.my_pos

DefaultTargetPos(p) == p.spawn

ItemByIdFirst(p, id) == p.items[1]

\* visible_items_by_id[current_target_id]
ItemById(p, id) ==
    LET ks == {k \in 1..Len(p.items) : p.items[k].id = id}
    IN  p.items[CHOOSE k \in ks : \A j \in ks : j <= k]

\* current_target_id != "0" and current_target_id in visible_items_by_id
KeepsTargetNever(p) == FALSE

KeepsTarget(p) ==
    /\ p.current_target_id # NoTarget
    /\ \E k \in 1..Len(p.items) : p.items[k].id = p.current_target_id

\* available_other_robots_without_target
IsEligibleAnyOther(p, e) == e.id # p.my_id

IsEligible(p, e) ==
    /\ e.id # p.my_id
    /\ e.current_target_id = NoTarget
    /\ ~e.is_carrying

OthersWithoutTarget(p) == SelectSeq(p.all_agents, LAMBDA e : IsEligible(p, e))

\* reserved_items
ReservedItemsNone(p) == {}

ReservedItemsWithSelf(p) ==
    {p.all_agents[k].current_target_id :
        k \in {j \in 1..Len(p.all_agents) :
                  p.all_agents[j].current_target_id # NoTarget}}

ReservedItems(p) ==
    {p.all_agents[k].current_target_id :
        k \in {j \in 1..Len(p.all_agents) :
                  /\ p.all_agents[j].id # p.my_id
                  /\ p.all_agents[j].current_target_id # NoTarget}}

\* list.sort(key=squared distance to the robot): stable insertion
RECURSIVE InsertByDistance(_, _, _, _)
InsertByDistance(sorted, item, me, k) ==
    IF k > Len(sorted) THEN Append(sorted, item)
    ELSE IF Dist2(item.pos, me) < Dist2(sorted[k].pos, me)
         THEN SubSeq(sorted, 1, k - 1) \o << item >> \o SubSeq(sorted, k, Len(sorted))
         ELSE InsertByDistance(sorted, item, me, k + 1)

RECURSIVE SortByDistance(_, _, _)
SortByDistance(items, me, k) ==
    IF k = 0 THEN << >>
    ELSE InsertByDistance(SortByDistance(items, me, k - 1), items[k], me, 1)

AvailableItems(p) ==
    LET free == SelectSeq(p.items, LAMBDA item : item.id \notin ReservedItems(p))
    IN  SortByDistance(free, p.my_pos, Len(free))

\* is_significantly_closer
IsSignificantlyCloser(other_d, closest_d) == other_d < closest_d

\* has_priority_id: str(other_robot_id) < closest_robot_id
HasPriorityId(other_id, closest_id) == StrLess(other_id, closest_id)

\* One pass of the inner loop over the available peers: the running closest
\* robot, or raised when a peer's x or z is None.
RECURSIVE ClosestRobot(_, _, _, _)
ClosestRobot(item, avail, k, cur) ==
    IF k > Len(avail) THEN cur
    ELSE LET e == avail[k] IN
         IF ~e.hasPos THEN [cur EXCEPT !.raised = TRUE]
         ELSE LET other_d == Dist2(item.pos, e.pos)
                  beats == \/ IsSignificantlyCloser(other_d, cur.d)
                           \/ /\ IsClose(other_d, cur.d)
                              /\ HasPriorityId(e.id, cur.id)
              IN  ClosestRobot(item, avail, k + 1,
                      IF beats THEN [id |-> e.id, d |-> other_d, raised |-> FALSE]
                      ELSE cur)

\* del available_other_robots_without_target[closest_robot_id]
WithoutRobot(avail, id) == SelectSeq(avail, LAMBDA e : e.id # id)

\* The loop over available_items: the first item nobody takes from the robot.
RECURSIVE Tournament(_, _, _, _)
Tournament(p, items, k, avail) ==
    IF k > Len(items) THEN [won |-> FALSE, raised |-> FALSE, item |-> << >>]
    ELSE LET item == items[k]
             c == ClosestRobot(item, avail, 1,
                      [id |-> p.my_id, d |-> Dist2(item.pos, p.my_pos),
                       raised |-> FALSE])
         IN  IF c.raised THEN [won |-> FALSE, raised |-> TRUE, item |-> << >>]
             ELSE IF c.id = p.my_id
                  THEN [won |-> TRUE, raised |-> FALSE, item |-> item]
                  ELSE Tournament(p, items, k + 1, WithoutRobot(avail, c.id))

RunTournament(p) == Tournament(p, AvailableItems(p), 1, OthersWithoutTarget(p))

\* min(delivery_zones, key=squared distance): the first of the nearest
ClosestDeliveryLast(p) ==
    LET zs == p.deposites
        k0 == CHOOSE k \in 1..Len(zs) :
                  /\ \A j \in 1..Len(zs) : Dist2(zs[k], p.my_pos) <= Dist2(zs[j], p.my_pos)
                  /\ \A j \in (k + 1)..Len(zs) : Dist2(zs[j], p.my_pos) > Dist2(zs[k], p.my_pos)
    IN  zs[k0]

ClosestDelivery(p) ==
    LET zs == p.deposites
        k0 == CHOOSE k \in 1..Len(zs) :
                  /\ \A j \in 1..Len(zs) : Dist2(zs[k], p.my_pos) <= Dist2(zs[j], p.my_pos)
                  /\ \A j \in 1..(k - 1) : Dist2(zs[j], p.my_pos) > Dist2(zs[k], p.my_pos)
    IN  zs[k0]

\* The target chosen by lines 55-147: id and position before the avoidance
\* offset, or raised.
ChooseTarget(p) ==
    IF p.is_carrying /\ Len(p.deposites) > 0
    THEN [raised |-> FALSE, id |-> DefaultTargetId(p), pos |-> ClosestDelivery(p)]
    ELSE IF ~p.is_carrying
    THEN IF KeepsTarget(p)
         THEN [raised |-> FALSE, id |-> p.current_target_id,
               pos |-> ItemById(p, p.current_target_id).pos]
         ELSE LET t == RunTournament(p) IN
              IF t.raised
              THEN [raised |-> TRUE, id |-> NoTarget, pos |-> << 0, 0 >>]
              ELSE IF t.won
              THEN [raised |-> FALSE, id |-> t.item.id, pos |-> t.item.pos]
              ELSE [raised |-> FALSE, id |-> DefaultTargetId(p),
                    pos |-> DefaultTargetPos(p)]
    ELSE [raised |-> FALSE, id |-> DefaultTargetId(p), pos |-> DefaultTargetPos(p)]

\* near_item(robot_x, robot_z, visible_items)
near_item(me, items) ==
    \E k \in 1..Len(items) : Dist2(items[k].pos, me) < PickupThresholdSq

\* The action and movement type of lines 152-168.
LifecycleWalkingPickUp(p, t) ==
    LET pick == ~p.is_carrying /\ t.id # NoTarget /\ near_item(p.my_pos, p.items)
        drop == p.is_carrying /\ 100 * Dist2(t.pos, p.my_pos) < DropThresholdSqPct
    IN  [action_type |-> IF drop THEN "drop_off" ELSE IF pick THEN "pick_up" ELSE "none",
         movement_type |-> IF drop THEN "stop" ELSE "walk"]

Lifecycle(p, t) ==
    LET pick == ~p.is_carrying /\ t.id # NoTarget /\ near_item(p.my_pos, p.items)
        drop == p.is_carrying /\ 100 * Dist2(t.pos, p.my_pos) < DropThresholdSqPct
    IN  [action_type |-> IF drop THEN "drop_off" ELSE IF pick THEN "pick_up" ELSE "none",
         movement_type |-> IF drop \/ pick THEN "stop" ELSE "walk"]

\* math.hypot of two grid offsets, in grid steps: the points used within
\* reach of an obstacle or a peer are at whole-number distances.
Root(d2) == CHOOSE r \in 0..d2 : r * r = d2

\* The largest whole distance below 1.5, in grid steps.
MaxRoot == (3 * Unit - 1) \div 2

RECURSIVE Gcd(_, _)
Gcd(a, b) == IF b = 0 THEN a ELSE Gcd(b, a % b)

RECURSIVE Lcm(_)
Lcm(n) == IF n <= 1 THEN 1 ELSE (Lcm(n - 1) * n) \div Gcd(Lcm(n - 1), n)

\* Offsets are counted in parts of 1 / OffsetUnit, in which every push at a
\* whole distance is a whole number (halves in the robots' world).
OffsetUnit == 2 * Unit * Lcm(MaxRoot)

\* 0 < distance < 1.5
InObstacleReachOrOn(d2) == 4 * d2 < ObstacleReachSq4 * Unit * Unit

InObstacleReach(d2) == 0 < d2 /\ 4 * d2 < ObstacleReachSq4 * Unit * Unit

\* 0 < distance < 0.5
InPeerReach(d2) == 0 < d2 /\ 4 * d2 < PeerReachSq4 * Unit * Unit

\* (dx / distance) * strength * 1.5 with strength = (1.5 - distance) / 1.5,
\* in parts of 1 / OffsetUnit
ObstaclePush(delta, d2) ==
    (delta * (3 * Unit - 2 * Root(d2)) * Lcm(MaxRoot)) \div Root(d2)

\* (dx / distance) * strength * 2 with strength = (0.5 - distance) / 1,
\* in parts of 1 / OffsetUnit
PeerPushHalved(delta, d2) ==
    (delta * (Unit - 2 * Root(d2)) * Lcm(MaxRoot)) \div Root(d2)

PeerPush(delta, d2) ==
    (2 * delta * (Unit - 2 * Root(d2)) * Lcm(MaxRoot)) \div Root(d2)

\* One obstacle of the loop of lines 175-183: its share of avoidance_x
\* (i = 1) or avoidance_z (i = 2), and whether dx / distance
\* divides by zero for it.
ObstacleTerm(me, o, i) ==
    LET d2 == Dist2(me, o)
    IN  IF InObstacleReach(d2) /\ d2 # 0 THEN ObstaclePush(me[i] - o[i], d2) ELSE 0

ObstacleFault(me, o) == InObstacleReach(Dist2(me, o)) /\ Dist2(me, o) = 0

RECURSIVE ObstacleSum(_, _, _, _)
ObstacleSum(me, obstacles, k, i) ==
    IF k = 0 THEN 0
    ELSE ObstacleSum(me, obstacles, k - 1, i) + ObstacleTerm(me, obstacles[k], i)

\* Where the loop of lines 189-205 takes a peer to stand: an entry without
\* x or z counts as (0.0, 0.0).
PeerPos(e) == IF e.hasPos THEN e.pos ELSE << 0, 0 >>

\* One entry of all_agents in that loop; the robot's own entry is skipped.
PeerTerm(p, e, i) ==
    LET d2 == Dist2(p.my_pos, PeerPos(e))
    IN  IF e.id # p.my_id /\ InPeerReach(d2) /\ d2 # 0
        THEN PeerPush(p.my_pos[i] - PeerPos(e)[i], d2) ELSE 0

PeerFault(p, e) ==
    /\ e.id # p.my_id
    /\ InPeerReach(Dist2(p.my_pos, PeerPos(e)))
    /\ Dist2(p.my_pos, PeerPos(e)) = 0

RECURSIVE PeerSum(_, _, _, _)
PeerSum(p, agents, k, i) ==
    IF k = 0 THEN 0
    ELSE PeerSum(p, agents, k - 1, i) + PeerTerm(p, agents[k], i)

\* avoidance_x, avoidance_z of lines 173-205 in parts of 1 / OffsetUnit, or
\* raised
Avoidance(p) ==
    [raised |->
        \/ \E k \in 1..Len(p.obstacles) : ObstacleFault(p.my_pos, p.obstacles[k])
        \/ \E k \in 1..Len(p.all_agents) : PeerFault(p, p.all_agents[k]),
     off |-> << ObstacleSum(p.my_pos, p.obstacles, Len(p.obstacles), 1)
                    + PeerSum(p, p.all_agents, Len(p.all_agents), 1),
                ObstacleSum(p.my_pos, p.obstacles, Len(p.obstacles), 2)
                    + PeerSum(p, p.all_agents, Len(p.all_agents), 2) >>]

\* decide_action(perception): the returned dict, or raised.  The movement
\* target of the dict is target_pos + avoid / OffsetUnit.
decide_action(p) ==
    LET t == ChooseTarget(p)
        l == Lifecycle(p, t)
        v == IF t.raised THEN [raised |-> TRUE, off |-> << 0, 0 >>] ELSE Avoidance(p)
    IN  [raised |-> v.raised,
         decision |-> [movement_type |-> l.movement_type, target_pos |-> t.pos,
                       avoid |-> v.off,
                       action_type |-> l.action_type, target_id |-> t.id]]

\* ------------------------------------------------------------- decide_all
\* decide_action reads the shared dict and changes only its own copy of it
\* (the dict comprehension of line 82, the del of line 147).
AllAgentsAfterInPlace(agents, p) ==
    IF ~p.is_carrying /\ ~KeepsTarget(p) THEN OthersWithoutTarget(p) ELSE agents

AllAgentsAfter(agents, p) == agents

\* visible_items after the call: lines 98-105 filter into a new list and
\* sort that one
VisibleItemsAfterInPlace(p) ==
    IF ~p.is_carrying /\ ~KeepsTarget(p)
    THEN SortByDistance(p.items, p.my_pos, Len(p.items))
    ELSE p.items

VisibleItemsAfter(p) == p.items

\* The perception dict as the caller finds it after decide_action(p).
PerceptionAfter(p) ==
    [p EXCEPT !.all_agents = AllAgentsAfter(p.all_agents, p),
              !.items = VisibleItemsAfter(p)]

\* the except branch of decide_all
SafeDecision ==
    [movement_type |-> "stop", target_pos |-> << 0, 0 >>, avoid |-> << 0, 0 >>,
     action_type |-> "none", target_id |-> NoTarget]

OnErrorSkip(decisions, a) == decisions

OnError(decisions, a) == (a :> SafeDecision) @@ decisions

\* one iteration of the loop of decide_all
DecideOne(decisions, a, p) ==
    LET r == decide_action(p)
    IN  IF r.raised THEN OnError(decisions, a)
        ELSE (a :> r.decision) @@ decisions

world == << pos, carrying, target, seen, missing, order, deposites, events >>

probe == << call, result >>

Init ==
    /\ pos \in [AgentIds -> Positions]
    /\ carrying = [a \in AgentIds |-> FALSE]
    /\ target = [a \in AgentIds |-> NoTarget]
    /\ seen = [a \in AgentIds |-> ItemIds]
    /\ missing = {}
    /\ order = FirstOrder
    /\ deposites \in ZoneLists
    /\ events = 0
    /\ pc = "idle"
    /\ pending = {}
    /\ all_agents = << >>
    /\ all_decisions = << >>
    /\ call = NoCall
    /\ result = NoCall

\* The host builds the shared snapshot and calls decide_all.
DecideAllStart ==
    /\ pc = "idle"
    /\ pc' = "batch"
    /\ pending' = AgentIds
    /\ all_agents' = BuildAllAgents
    /\ all_decisions' = << >>
    /\ UNCHANGED << world, probe >>

\* for agent_id, perception in all_perceptions.items(): try ... except ...
DecideStep(a) ==
    /\ pc = "batch"
    /\ a \in pending
    /\ pending' = pending \ {a}
    /\ all_decisions' = DecideOne(all_decisions, a, Perception(a, all_agents))
    /\ all_agents' = AllAgentsAfter(all_agents, Perception(a, all_agents))
    /\ UNCHANGED << world, pc, probe >>

\* return all_decisions
DecideAllReturn ==
    /\ pc = "batch"
    /\ pending = {}
    /\ pc' = "returned"
    /\ UNCHANGED << world, pending, all_agents, all_decisions, probe >>

\* The host stores each returned target_id as the agent's current target.
HostCommit ==
    /\ pc = "returned"
    /\ target' = [a \in AgentIds |->
                     IF a \in DOMAIN all_decisions THEN all_decisions[a].target_id
                     ELSE target[a]]
    /\ pc' = "idle"
    /\ all_agents' = << >>
    /\ UNCHANGED << pos, carrying, seen, missing, order, deposites,
                    events, pending, all_decisions, probe >>

\* ------------------------------------------------------- the world changes
batch == << pc, pending, all_agents, all_decisions >>

\* An agent is somewhere else at the next tick.
Move(a, q) ==
    /\ pc = "idle" /\ events < MaxEvents
    /\ q # pos[a]
    /\ pos' = [pos EXCEPT ![a] = q]
    /\ events' = events + 1
    /\ UNCHANGED << carrying, target, seen, missing, order, deposites, batch, probe >>

\* Some items leave an agent's perception.
LoseSight(a, gone) ==
    /\ pc = "idle" /\ events < MaxEvents
    /\ gone # {} /\ gone \subseteq seen[a]
    /\ seen' = [seen EXCEPT ![a] = seen[a] \ gone]
    /\ events' = events + 1
    /\ UNCHANGED << pos, carrying, target, missing, order, deposites, batch, probe >>

\* The host carries out a pick_up decision.
PickUp(a) ==
    /\ pc = "idle" /\ events < MaxEvents
    /\ a \in DOMAIN all_decisions
    /\ all_decisions[a].action_type = "pick_up"
    /\ carrying' = [carrying EXCEPT ![a] = TRUE]
    /\ events' = events + 1
    /\ UNCHANGED << pos, target, seen, missing, order, deposites, batch, probe >>

\* An agent that carries an item is somewhere else at the next tick.
Haul(a, q) ==
    /\ pc = "idle" /\ events < MaxEvents + MaxHauls
    /\ carrying[a]
    /\ q # pos[a]
    /\ pos' = [pos EXCEPT ![a] = q]
    /\ events' = MaxEvents + MaxHauls
    /\ UNCHANGED << carrying, target, seen, missing, order, deposites, batch, probe >>

\* No delivery zone is offered any more.  The zone list is read for a
\* carrying agent only (line 62).
LoseZones ==
    /\ pc = "idle"
    /\ \E a \in AgentIds : carrying[a]
    /\ deposites # << >>
    /\ deposites' = << >>
    /\ UNCHANGED << pos, carrying, target, seen, missing, order, events, batch, probe >>

\* The keys of all_agents come in another order.
Reorder ==
    /\ pc = "idle" /\ events < MaxEvents
    /\ order' = [k \in 1..Len(order) |-> order[Len(order) + 1 - k]]
    /\ events' = events + 1
    /\ UNCHANGED << pos, carrying, target, seen, missing, deposites, batch, probe >>

\* An agent's snapshot entry comes without x and z.
LoseField(a) ==
    /\ pc = "idle"
    /\ missing = {}
    /\ missing' = {a}
    /\ UNCHANGED << pos, carrying, target, seen, order, deposites, events, batch, probe >>

Next ==
    \/ DecideAllStart
    \/ \E a \in AgentIds : DecideStep(a)
    \/ DecideAllReturn
    \/ HostCommit
    \/ \E a \in AgentIds, q \in Positions : Move(a, q)
    \/ \E a \in AgentIds, gone \in SUBSET ItemIds : LoseSight(a, gone)
    \/ \E a \in AgentIds : PickUp(a)
    \/ \E a \in AgentIds, q \in Positions : Haul(a, q)
    \/ LoseZones
    \/ Reorder
    \/ \E a \in AgentIds : LoseField(a)

Spec == Init /\ [][Next]_vars

\* ------------------------------------------------------------ direct calls
\* One function is called once on arguments of its own, outside a batch.
\* Positions are in grid steps of 1 / FineUnit.
FineSelves == { << 0, 0 >>, << 0, 1 >>, << 8, 0 >> }

\* Where an obstacle stands relative to the robot: at whole distances
\* 0, 1, 1, 2, 4, 5, 5, 5, 6 grid steps, or far off.
ObstacleOffsets ==
    { << 0, 0 >>, << 1, 0 >>, << -1, 0 >>, << 0, 2 >>, << 0, -4 >>,
      << 3, 4 >>, << -4, 3 >>, << 0, 5 >>, << 0, 6 >>, << 8, 8 >> }

PeerOffsets == { << 0, 0 >>, << 1, 0 >>, << 0, -1 >>, << 0, 2 >>, << 8, 8 >> }

SeqsUpTo2(S) == { << >> } \cup { << x >> : x \in S } \cup { << x, y >> : x, y \in S }

Shifted(s, S) == { << s[1] + o[1], s[2] + o[2] >> : o \in S }

\* An all_agents entry of a direct call; the caller is "Robot_1".
ProbeEntry(id, hasPos, q) ==
    [id |-> id, hasPos |-> hasPos, pos |-> q,
     is_carrying |-> FALSE, current_target_id |-> NoTarget]

ProbePeers(s) ==
    { ProbeEntry(2, TRUE, q) : q \in Shifted(s, PeerOffsets) }
        \cup { ProbeEntry(2, FALSE, << 0, 0 >>) }

\* The arguments of the avoidance part of decide_action (lines 173-205).
AvoidanceCall(s, obs, peers) ==
    [fn |-> "avoidance",
     p |-> [my_id |-> 1, my_pos |-> s, obstacles |-> obs,
            all_agents |-> << ProbeEntry(1, TRUE, s) >> \o peers]]

\* What a robot is doing when decide_action is called for it.
Doing == {"idle", "to1", "to2", "carrying"}

\* At most one peer of the caller is busy.
Profiles(a) ==
    { f \in [AgentIds -> Doing] :
          Cardinality({b \in AgentIds \ {a} : f[b] # "idle"}) <= 1 }

TargetOf(doing) ==
    IF doing = "to1" THEN "1" ELSE IF doing = "to2" THEN "2" ELSE NoTarget

DecideCalls == { [fn |-> "decide_action", a |-> a] : a \in AgentIds }

\* A direct call of the avoidance part: the world is not read.
AvoidanceInit ==
    /\ \E s \in FineSelves :
          \E obs \in SeqsUpTo2(Shifted(s, ObstacleOffsets)),
             peers \in SeqsUpTo2(ProbePeers(s)) :
              call = AvoidanceCall(s, obs, peers)
    /\ pos = [a \in AgentIds |-> SpawnPoint]
    /\ carrying = [a \in AgentIds |-> FALSE]
    /\ target = [a \in AgentIds |-> NoTarget]
    /\ seen = [a \in AgentIds |-> ItemIds]
    /\ missing = {}

\* A direct call of decide_action on the perception of one robot.
DecideInit ==
    /\ call \in DecideCalls
    /\ pos \in [AgentIds -> Positions]
    /\ \E f \in Profiles(call.a) :
           /\ carrying = [b \in AgentIds |-> f[b] = "carrying"]
           /\ target = [b \in AgentIds |-> TargetOf(f[b])]
    /\ \E s \in { ItemIds, {"2"}, {} } :
           seen = [b \in AgentIds |-> IF b = call.a THEN s ELSE ItemIds]
    /\ missing \in { {}, {2} }

CallInit ==
    /\ \/ AvoidanceInit
       \/ DecideInit
    /\ order = FirstOrder
    /\ deposites \in ZoneLists
    /\ events = 0
    /\ pc = "call"
    /\ pending = {}
    /\ all_agents = << >>
    /\ all_decisions = << >>
    /\ result = NoCall

\* decide_action(perception), lines 29-217
CallDecideAction ==
    /\ call.fn = "decide_action"
    /\ result = NoCall
    /\ result' = [fn |-> "decide_action",
                  value |-> decide_action(Perception(call.a, BuildAllAgents)),
                  after |-> PerceptionAfter(Perception(call.a, BuildAllAgents))]
    /\ UNCHANGED << world, batch, call >>

\* lines 173-205 of decide_action
CallAvoidance ==
    /\ call.fn = "avoidance"
    /\ result = NoCall
    /\ result' = [fn |-> "avoidance", value |-> Avoidance(call.p)]
    /\ UNCHANGED << world, batch, call >>

CallNext ==
    \/ CallAvoidance
    \/ CallDecideAction

CallSpec == CallInit /\ [][CallNext]_vars

\* ---------------------------------------------------- gathering_behavior
\* decide_all of gathering_behavior.py is called once on a batch of two
\* perceptions.  The random draws and the module's agent_states, which fix
\* the movement and the action of a normal decision, are a free choice.
QUARANTINE_HEALTH_THRESHOLD == 50

GatheringIds == << 1, 2 >>

\* perception['my_id'] ... perception['spawn_z']
RequiredKeys ==
    {"my_id", "my_x", "my_z", "health", "is_contagious", "infection_stage",
     "spawn_x", "spawn_z"}

\* perception['heard_count'], perception['visible_count']
ContagiousKeys == {"heard_count", "visible_count"}

\* the keys one perception of the input may lack
AbsentKeys == { {}, {"my_x"}, {"my_z"}, {"health"}, {"heard_count"} }

HealthLevels == {40, 80}

GatheringPerceptions(id) ==
    { [my_id |-> id, keys |-> (RequiredKeys \cup ContagiousKeys) \ absent,
       my_pos |-> << id, 0 >>, health |-> h, is_contagious |-> c,
       infection_stage |-> st] :
          absent \in AbsentKeys, h \in HealthLevels, c \in BOOLEAN,
          st \in {0, 1} }

\* what the random draws and agent_states decide
Choices ==
    [flee : BOOLEAN, movement : {"run", "stop", "walk"},
     action : {"none", "sneeze", "cough"}, target : {<< 0, 0 >>, << 25, 25 >>}]

build_response(target_pos, movement_type, action_type) ==
    [movement_type |-> movement_type, target_pos |-> target_pos,
     action_type |-> action_type]

\* decide_contagious_action(perception): KeyError without the two counts
decide_contagious_action(p, c) ==
    [raised |-> ~(ContagiousKeys \subseteq p.keys), action |-> c.action]

\* decide_action(perception) of gathering_behavior.py
gathering_decide_action(p, c) ==
    IF ~(RequiredKeys \subseteq p.keys)
    THEN [raised |-> TRUE, decision |-> << >>]
    ELSE IF p.is_contagious /\ p.health < QUARANTINE_HEALTH_THRESHOLD
    THEN [raised |-> FALSE,
          decision |-> build_response(p.my_pos, "stop", "quarantine")]
    ELSE IF ~p.is_contagious /\ p.infection_stage = 0 /\ c.flee
    THEN [raised |-> FALSE,
          decision |-> build_response(c.target, "run", "none")]
    ELSE IF p.is_contagious
    THEN [raised |-> decide_contagious_action(p, c).raised,
          decision |-> build_response(c.target, c.movement,
                                      decide_contagious_action(p, c).action)]
    ELSE [raised |-> FALSE,
          decision |-> build_response(c.target, c.movement, "none")]

\* the except branch of decide_all: it reads my_x and my_z itself
HandlerRaises(p) == ~({"my_x", "my_z"} \subseteq p.keys)

GatherInit ==
    /\ pos = [a \in AgentIds |-> SpawnPoint]
    /\ carrying = [a \in AgentIds |-> FALSE]
    /\ target = [a \in AgentIds |-> NoTarget]
    /\ seen = [a \in AgentIds |-> ItemIds]
    /\ missing = {}
    /\ order = FirstOrder
    /\ deposites \in ZoneLists
    /\ events = 0
    /\ pc = "call"
    /\ pending = {}
    /\ all_agents = << >>
    /\ all_decisions = << >>
    /\ \E p1 \in GatheringPerceptions(GatheringIds[1]),
          p2 \in GatheringPerceptions(GatheringIds[2]) :
           call = [fn |-> "decide_all", all_perceptions |-> << p1, p2 >>]
    /\ result = [fn |-> "decide_all", pc |-> "loop", k |-> 1,
                 all_decisions |-> << >>]

\* one iteration of the loop of decide_all, lines 62-73
GatherStep ==
    /\ call.fn = "decide_all"
    /\ result.pc = "loop"
    /\ result.k <= Len(call.all_perceptions)
    /\ \E c \in Choices :
          LET p == call.all_perceptions[result.k]
              r == gathering_decide_action(p, c)
          IN  result' =
                  IF ~r.raised
                  THEN [result EXCEPT !.k = @ + 1,
                           !.all_decisions = (p.my_id :> r.decision) @@ @]
                  ELSE IF ~HandlerRaises(p)
                  THEN [result EXCEPT !.k = @ + 1,
                           !.all_decisions =
                               (p.my_id :> build_response(p.my_pos, "stop", "none")) @@ @]
                  ELSE [result EXCEPT !.pc = "raised"]
    /\ UNCHANGED << world, batch, call >>

\* return all_decisions, line 75
GatherReturn ==
    /\ call.fn = "decide_all"
    /\ result.pc = "loop"
    /\ result.k > Len(call.all_perceptions)
    /\ result' = [result EXCEPT !.pc = "returned"]
    /\ UNCHANGED << world, batch, call >>

GatherNext ==
    \/ GatherStep
    \/ GatherReturn

GatherSpec == GatherInit /\ [][GatherNext]_vars

\* ------------------------------------------------------- choose_new_poi
\* choose_new_poi(current_x, current_z, current_poi) of gathering_behavior.py
\* as a direct call.  Attractions are in tenths, distances in tenths (rounded
\* down), weights and the random draw in parts of 1/WeightUnit.  The name
\* 'Marché' is written without its accent.
WeightUnit == 10000

POINTS_OF_INTEREST ==
    << [pos |-> << 0, 0 >>, name |-> "Centre Village", attraction |-> 10],
       [pos |-> << 15, 15 >>, name |-> "Marche", attraction |-> 8],
       [pos |-> << -15, 15 >>, name |-> "Fontaine", attraction |-> 6],
       [pos |-> << 15, -15 >>, name |-> "Temple", attraction |-> 5],
       [pos |-> << -15, -15 >>, name |-> "Taverne", attraction |-> 7] >>

\* current_poi is None
NoPoi == [name |-> "None"]

CurrentPois == { POINTS_OF_INTEREST[i] : i \in DOMAIN POINTS_OF_INTEREST } \cup { NoPoi }

PoiPositions ==
    { POINTS_OF_INTEREST[i].pos : i \in DOMAIN POINTS_OF_INTEREST }
        \cup { << 3, 4 >>, << -7, 2 >> }

\* calculate_distance, in tenths
calculate_distance(p, q) ==
    CHOOSE r \in 0..1000 :
        r * r <= 100 * Dist2(p, q) /\ (r + 1) * (r + 1) > 100 * Dist2(p, q)

\* dist_score * attraction_score = attraction / (1 + 0.1 * dist)
TotalScore(at, poi) ==
    (poi.attraction * 10 * WeightUnit) \div (100 + calculate_distance(at, poi.pos))

PoiWeights(at, current_poi) ==
    [i \in DOMAIN POINTS_OF_INTEREST |->
        IF current_poi # NoPoi /\ POINTS_OF_INTEREST[i].name = current_poi.name
        THEN 0
        ELSE TotalScore(at, POINTS_OF_INTEREST[i])]

\* weights[1] + ... + weights[n]: sum(weights), and cumulative after n rounds
RECURSIVE Cumulative(_, _)
Cumulative(weights, n) ==
    IF n = 0 THEN 0 ELSE Cumulative(weights, n - 1) + weights[n]

TotalWeight(at, current_poi) ==
    Cumulative(PoiWeights(at, current_poi), Len(POINTS_OF_INTEREST))

\* rand is the value of random.uniform(0, total_weight), choice the index
\* random.choice picks
choose_new_poi(at, current_poi, rand, choice) ==
    LET weights == PoiWeights(at, current_poi)
        n == Len(POINTS_OF_INTEREST)
        hits == { i \in 1..n : rand <= Cumulative(weights, i) }
    IN  IF Cumulative(weights, n) = 0
        THEN POINTS_OF_INTEREST[choice]
        ELSE IF hits # {}
        THEN POINTS_OF_INTEREST[CHOOSE i \in hits : \A j \in hits : i <= j]
        ELSE POINTS_OF_INTEREST[n]

\* draws of random.uniform(0, total_weight): both end points, every
\* cumulative sum and its two neighbours
PoiDraws(at, current_poi) ==
    LET total == TotalWeight(at, current_poi)
    IN  { r \in { Cumulative(PoiWeights(at, current_poi), i) + d :
                      i \in 0..Len(POINTS_OF_INTEREST), d \in {-1, 0, 1} } :
              r >= 0 /\ r <= total }

PoiChoices(at, current_poi) ==
    IF TotalWeight(at, current_poi) = 0 THEN DOMAIN POINTS_OF_INTEREST ELSE {1}

PoiInit ==
    /\ pos = [a \in AgentIds |-> SpawnPoint]
    /\ carrying = [a \in AgentIds |-> FALSE]
    /\ target = [a \in AgentIds |-> NoTarget]
    /\ seen = [a \in AgentIds |-> ItemIds]
    /\ missing = {}
    /\ order = FirstOrder
    /\ deposites \in ZoneLists
    /\ events = 0
    /\ pc = "call"
    /\ pending = {}
    /\ all_agents = << >>
    /\ all_decisions = << >>
    /\ \E at \in PoiPositions, current_poi \in CurrentPois :
          \E rand \in PoiDraws(at, current_poi),
             choice \in PoiChoices(at, current_poi) :
               call = [fn |-> "choose_new_poi", at |-> at,
                       current_poi |-> current_poi,
                       rand |-> rand, choice |-> choice]
    /\ result = NoCall

CallChooseNewPoi ==
    /\ call.fn = "choose_new_poi"
    /\ result = NoCall
    /\ result' = [fn |-> "choose_new_poi",
                  value |-> choose_new_poi(call.at, call.current_poi,
                                           call.rand, call.choice)]
    /\ UNCHANGED << world, batch, call >>

PoiNext == CallChooseNewPoi

PoiSpec == PoiInit /\ [][PoiNext]_vars

\* ------------------------------------------------------------------ flock
\* decide_action of flock.py is called again and again; group_memberships
\* and leader_data of the module persist between the calls.  A key absent
\* from one of the two dicts is the value NoId / size 0.  The wander target
\* and the timer of a leader are random and not part of the group structure.
MEETING_DISTANCE == 4

FlockIds == {1, 2, 3}

NoId == 0

\* where the other agents of a perception stand: at distance 4, 4 and 5 of
\* the agent itself, which is at the origin
FlockOthers == { << 4, 0 >>, << 0, 4 >>, << 3, 4 >> }

Ascending(S) ==
    LET n == Cardinality(S)
    IN  [k \in 1..n |-> CHOOSE x \in S : Cardinality({y \in S : y < x}) = k - 1]

Descending(S) ==
    LET n == Cardinality(S)
    IN  [k \in 1..n |-> CHOOSE x \in S : Cardinality({y \in S : y > x}) = k - 1]

\* the keys of perception['all_agents'], in enumeration order
FlockOrders(a) ==
    UNION { {Ascending(S \cup {a}), Descending(S \cup {a})} :
                S \in SUBSET (FlockIds \ {a}) }

FlockEmpty ==
    [group_memberships |-> [f \in FlockIds |-> NoId],
     leader_data |-> [l \in FlockIds |-> 0]]

InAllAgents(keys, id) == \E k \in 1..Len(keys) : keys[k] = id

\* the followers a leader has
FollowerCount(s, leader_id) ==
    Cardinality({f \in FlockIds : s.group_memberships[f] = leader_id})

update_group_size(s, leader_id) ==
    IF s.leader_data[leader_id] = 0 THEN s
    ELSE [s EXCEPT !.leader_data[leader_id] = FollowerCount(s, leader_id) + 1]

become_leader(s, agent_id) == [s EXCEPT !.leader_data[agent_id] = 1]

\* the ids of the other leaders within MEETING_DISTANCE, in the order of
\* all_agents
find_nearby_leaders(s, my_id, keys, at) ==
    SelectSeq(keys, LAMBDA id :
        /\ id # my_id
        /\ s.group_memberships[id] # my_id
        /\ s.leader_data[id] # 0
        /\ Dist2(at[my_id], at[id]) <= MEETING_DISTANCE * MEETING_DISTANCE)

LowestId(S) == CHOOSE x \in S : \A y \in S : x <= y

StrictlyLargerOrEqual(size, my_group_size) == size >= my_group_size

StrictlyLarger(size, my_group_size) == size > my_group_size

find_merge_target(s, my_id, my_group_size, nearby) ==
    LET larger == {k \in 1..Len(nearby) :
                      StrictlyLarger(s.leader_data[nearby[k]], my_group_size)}
        equal_sized == {nearby[k] : k \in {j \in 1..Len(nearby) :
                           s.leader_data[nearby[j]] = my_group_size}}
    IN  IF larger # {} THEN nearby[LowestId(larger)]
        ELSE IF equal_sized # {} /\ LowestId(equal_sized \cup {my_id}) # my_id
             THEN LowestId(equal_sized \cup {my_id})
             ELSE NoId

\* the followers of the merged leader keep it as leader
TransferNobody(s, my_id, new_leader_id) == s.group_memberships

TransferFollowers(s, my_id, new_leader_id) ==
    [f \in FlockIds |->
        IF s.leader_data[my_id] # 0 /\ s.group_memberships[f] = my_id
        THEN new_leader_id ELSE s.group_memberships[f]]

merge_into_group(s, my_id, new_leader_id) ==
    LET moved == TransferFollowers(s, my_id, new_leader_id)
        t == [group_memberships |-> [moved EXCEPT ![my_id] = new_leader_id],
              leader_data |-> [s.leader_data EXCEPT ![my_id] = 0]]
    IN  update_group_size(t, new_leader_id)

\* determine_movement: the module state after the call and what the agent
\* walks to (toward = NoId: its own wander target)
determine_movement(s, my_id, keys, at) ==
    IF s.group_memberships[my_id] # NoId
    THEN IF InAllAgents(keys, s.group_memberships[my_id])
         THEN [state |-> s, toward |-> s.group_memberships[my_id],
               merged |-> NoId, my_group_size |-> 0]
         ELSE [state |-> become_leader(
                   [s EXCEPT !.group_memberships[my_id] = NoId], my_id),
               toward |-> NoId, merged |-> NoId, my_group_size |-> 0]
    ELSE LET s1 == IF s.leader_data[my_id] = 0 THEN become_leader(s, my_id) ELSE s
             s2 == update_group_size(s1, my_id)
             my_group_size == s2.leader_data[my_id]
             nearby == find_nearby_leaders(s2, my_id, keys, at)
             merge_target ==
                 IF nearby = << >> THEN NoId
                 ELSE find_merge_target(s2, my_id, my_group_size, nearby)
         IN  IF merge_target # NoId
             THEN [state |-> merge_into_group(s2, my_id, merge_target),
                   toward |-> merge_target, merged |-> merge_target,
                   my_group_size |-> my_group_size]
             ELSE [state |-> s2, toward |-> NoId, merged |-> NoId,
                   my_group_size |-> my_group_size]

FlockInit ==
    /\ pos = [a \in AgentIds |-> SpawnPoint]
    /\ carrying = [a \in AgentIds |-> FALSE]
    /\ target = [a \in AgentIds |-> NoTarget]
    /\ seen = [a \in AgentIds |-> ItemIds]
    /\ missing = {}
    /\ order = FirstOrder
    /\ deposites \in ZoneLists
    /\ events = 0
    /\ pc = "call"
    /\ pending = {}
    /\ all_agents = << >>
    /\ all_decisions = << >>
    /\ call = [fn |-> "flock"]
    /\ result = [fn |-> "flock", state |-> FlockEmpty, calls |-> 0]

\* decide_action(perception) of flock.py, for any agent and any perception
FlockDecide ==
    /\ call.fn = "flock"
    /\ \E my_id \in FlockIds :
       \E keys \in FlockOrders(my_id) :
       \E at \in [FlockIds -> FlockOthers \cup {<< 0, 0 >>}] :
          /\ at[my_id] = << 0, 0 >>
          /\ \A id \in FlockIds \ {my_id} : at[id] \in FlockOthers
          /\ call' = [fn |-> "flock", my_id |-> my_id, keys |-> keys, at |-> at]
          /\ LET r == determine_movement(result.state, my_id, keys, at)
             IN  result' = [fn |-> "flock", state |-> r.state, calls |-> 1,
                            toward |-> r.toward, merged |-> r.merged,
                            my_group_size |-> r.my_group_size,
                            decision |-> [movement_type |-> "walk",
                                          action_type |-> "none"]]
    /\ UNCHANGED << world, batch >>

FlockNext ==
    \/ FlockDecide

FlockSpec == FlockInit /\ [][FlockNext]_vars

\* ---------------------------------------------------------- predator_prey
\* decide_action of predator_prey.py is called again and again;
\* predator_energy and dead_agents of the module persist between the calls.
\* Energy is counted in tenths.  Wander and flee targets are random or
\* derived positions and are left out of the decision.
PREDATOR_INITIAL_ENERGY == 100
ENERGY_DECAY_TENTHS == 15
ENERGY_GAIN_ON_EAT == 40
PREDATOR_VISION_RADIUS == 10
PREY_VISION_RADIUS == 8
CAPTURE_DISTANCE_TENTHS == 18

Predators == {1, 2}

Preys == {3}

Faction(id) == IF id \in Predators THEN "Predator" ELSE "Prey"

\* where another agent stands in visible_agents, the viewer being at the
\* origin: at distance 1, 5 or 10, or not in the dict at all
Absent == << >>

Sightings == { Absent, << 1, 0 >>, << 3, 4 >>, << 6, 8 >> }

NoEnergy == -1

stop_response == [movement_type |-> "stop", action_type |-> "none", target_id |-> 0]

kill_response(target_id) ==
    [movement_type |-> "stop", action_type |-> "kill", target_id |-> target_id]

move_response(movement_type) ==
    [movement_type |-> movement_type, action_type |-> "none", target_id |-> 0]

SkipsNobody(dead, agent_id) == FALSE

SkipsDead(dead, agent_id) == agent_id \in dead

\* find_closest_agent: the id of the nearest living agent of the faction
\* strictly inside max_radius, the first one in id order among equals;
\* 0 for None
find_closest_agent(dead, my_id, visible, max_radius, target_faction) ==
    LET cand == {id \in DOMAIN visible :
                    /\ visible[id] # Absent
                    /\ ~SkipsDead(dead, id)
                    /\ Faction(id) = target_faction
                    /\ Dist2(<< 0, 0 >>, visible[id]) < max_radius * max_radius}
        best == {id \in cand : \A o \in cand :
                    Dist2(<< 0, 0 >>, visible[id]) <= Dist2(<< 0, 0 >>, visible[o])}
    IN  IF cand = {} THEN 0 ELSE CHOOSE id \in best : \A o \in best : id <= o

\* decide_action(perception) of predator_prey.py: the module state after
\* the call and the decision
pp_decide_action(s, my_id, visible) ==
    IF my_id \in s.dead_agents
    THEN [state |-> s, decision |-> stop_response]
    ELSE IF Faction(my_id) = "Prey"
    THEN [state |-> s,
          decision |->
              IF find_closest_agent(s.dead_agents, my_id, visible,
                                    PREY_VISION_RADIUS, "Predator") # 0
              THEN move_response("run") ELSE move_response("walk")]
    ELSE LET e0 == IF s.predator_energy[my_id] = NoEnergy
                   THEN 10 * PREDATOR_INITIAL_ENERGY
                   ELSE s.predator_energy[my_id]
             e1 == e0 - ENERGY_DECAY_TENTHS
             prey == find_closest_agent(s.dead_agents, my_id, visible,
                                        PREDATOR_VISION_RADIUS, "Prey")
         IN  IF e1 <= 0
             THEN [state |-> [s EXCEPT !.predator_energy[my_id] = e1,
                                       !.dead_agents = @ \cup {my_id}],
                   decision |-> stop_response]
             ELSE IF prey = 0
             THEN [state |-> [s EXCEPT !.predator_energy[my_id] = e1],
                   decision |-> move_response("walk")]
             ELSE IF 100 * Dist2(<< 0, 0 >>, visible[prey])
                        <= CAPTURE_DISTANCE_TENTHS * CAPTURE_DISTANCE_TENTHS
             THEN [state |-> [s EXCEPT
                       !.predator_energy[my_id] = e1 + 10 * ENERGY_GAIN_ON_EAT,
                       !.dead_agents = @ \cup {prey}],
                   decision |-> kill_response(prey)]
             ELSE [state |-> [s EXCEPT !.predator_energy[my_id] = e1],
                   decision |-> move_response("run")]

PredatorInit ==
    /\ pos = [a \in AgentIds |-> SpawnPoint]
    /\ carrying = [a \in AgentIds |-> FALSE]
    /\ target = [a \in AgentIds |-> NoTarget]
    /\ seen = [a \in AgentIds |-> ItemIds]
    /\ missing = {}
    /\ order = FirstOrder
    /\ deposites \in ZoneLists
    /\ events = 0
    /\ pc = "call"
    /\ pending = {}
    /\ all_agents = << >>
    /\ all_decisions = << >>
    /\ call = [fn |-> "predator_prey"]
    /\ result = [fn |-> "predator_prey", calls |-> 0,
                 state |-> [dead_agents |-> {},
                            predator_energy |-> [a \in Predators |-> NoEnergy]],
                 kills |-> [a \in Preys |-> 0]]

\* decide_action(perception), for any agent and any visible_agents
PredatorDecide ==
    /\ call.fn = "predator_prey"
    /\ \E my_id \in Predators \cup Preys :
       \E visible \in [(Predators \cup Preys) \ {my_id} -> Sightings] :
          LET r == pp_decide_action(result.state, my_id, visible)
          IN  /\ call' = [fn |-> "predator_prey", my_id |-> my_id]
              /\ result' =
                     [fn |-> "predator_prey", calls |-> 1, state |-> r.state,
                      decision |-> r.decision,
                      kills |->
                          IF r.decision.action_type = "kill"
                          THEN [result.kills EXCEPT ![r.decision.target_id] = @ + 1]
                          ELSE result.kills]
    /\ UNCHANGED << world, batch >>

PredatorNext ==
    \/ PredatorDecide

PredatorSpec == PredatorInit /\ [][PredatorNext]_vars

\* --------------------------------------------------------- hunger_behavior
\* decide_action of hunger_behavior.py is called again and again for one
\* agent (the dicts of the module are only ever indexed by my_id);
\* search_data, behavior_timers and wander_targets of the module persist
\* between the calls.  Angles are in degrees, timers in halves of a second
\* (one DECISION_INTERVAL).  A wander target is a random point: only its
\* presence is kept.
HUNGER_THRESHOLD == 50
SEARCH_DIRECTIONS == 4
ANGLE_PER_STEP == 90
MaxRun == 9

HungerIds == {1}

HungerLevels == {20, 80}

HungerPositions == { << 0, 0 >>, << 5, 0 >>, << 5, 5 >> }

\* random.uniform(0, 2 * math.pi)
BaseAngles == {0, 30, 300}

\* random.uniform(2.0, 5.0)
TimerDraws == {4, 10}

\* random.random() of wander: below 0.2, below 0.6, above
WanderChoices == {"stop", "walk", "run"}

NoSearch == [center |-> << 0, 0 >>, step |-> -1, base_angle |-> 0]

NoTimer == -100

NoLook == [from |-> << 0, 0 >>, angle |-> -1]

HungerEmpty ==
    [search_data |-> [a \in HungerIds |-> NoSearch],
     behavior_timers |-> [a \in HungerIds |-> NoTimer],
     wander_targets |-> {}]

hunger_response(movement_type, action_type, look) ==
    [movement_type |-> movement_type, action_type |-> action_type, look |-> look]

\* the hungry branch keeps the wander state
KeepWander(s, my_id) == s

\* lines 74-77
ClearWander(s, my_id) ==
    [s EXCEPT !.wander_targets = @ \ {my_id},
              !.behavior_timers[my_id] = NoTimer]

NeverTurns(step) == step

NextStep(step) == IF step + 1 >= SEARCH_DIRECTIONS THEN 0 ELSE step + 1

\* search_for_food: the module state after the call and where the agent
\* looks; draw.base is the random angle, used when one is needed
search_for_food(s, agent_id, my_pos, draw) ==
    LET data == IF s.search_data[agent_id] = NoSearch
                THEN [center |-> my_pos, step |-> 0, base_angle |-> draw.base]
                ELSE s.search_data[agent_id]
        current_angle == data.base_angle + data.step * ANGLE_PER_STEP
        after == IF data.step + 1 >= SEARCH_DIRECTIONS
                 THEN [center |-> my_pos, step |-> NextStep(data.step),
                       base_angle |-> draw.base]
                 ELSE [data EXCEPT !.step = NextStep(data.step)]
    IN  [state |-> [s EXCEPT !.search_data[agent_id] = after],
         look |-> [from |-> data.center, angle |-> current_angle % 360]]

\* wander: timers count down by one DECISION_INTERVAL
wander(s, agent_id, draw) ==
    LET t0 == IF s.behavior_timers[agent_id] = NoTimer THEN 0
              ELSE s.behavior_timers[agent_id]
        t1 == t0 - 1
    IN  [state |-> [s EXCEPT
                       !.behavior_timers[agent_id] =
                           IF t1 <= 0 THEN draw.timer ELSE t1,
                       !.wander_targets = @ \cup {agent_id}],
         decision |-> hunger_response(draw.choice, "none", NoLook)]

\* decide_action(perception) of hunger_behavior.py
hunger_decide_action(s, p, draw) ==
    IF p.my_state = "Dead"
    THEN [state |-> s, decision |-> hunger_response("stop", "none", NoLook)]
    ELSE IF p.hunger < HUNGER_THRESHOLD
    THEN LET s1 == ClearWander(s, p.my_id)
         IN  IF p.visible_food
             THEN [state |-> [s1 EXCEPT !.search_data[p.my_id] = NoSearch],
                   decision |-> hunger_response("run", "eat", NoLook)]
             ELSE LET r == search_for_food(s1, p.my_id, p.my_pos, draw)
                  IN  [state |-> r.state,
                       decision |-> hunger_response("walk", "none", r.look)]
    ELSE wander([s EXCEPT !.search_data[p.my_id] = NoSearch], p.my_id, draw)

HungerPerceptions ==
    [my_id : HungerIds, my_pos : HungerPositions, hunger : HungerLevels,
     visible_food : BOOLEAN, my_state : {"Alive", "Dead"}]

NoDraw == [base |-> 0, timer |-> 0, choice |-> "stop"]

\* the random draws a call with perception p makes
Draws(p) ==
    IF p.my_state = "Dead" \/ (p.hunger < HUNGER_THRESHOLD /\ p.visible_food)
    THEN {NoDraw}
    ELSE IF p.hunger < HUNGER_THRESHOLD
    THEN {[NoDraw EXCEPT !.base = b] : b \in BaseAngles}
    ELSE {[NoDraw EXCEPT !.timer = t, !.choice = c] :
              t \in TimerDraws, c \in WanderChoices}

InRun(p) == p.hunger < HUNGER_THRESHOLD /\ ~p.visible_food

\* how many decisions of the present run came before, Dead ones counted
RunAfter(run, p) ==
    IF InRun(p) THEN [run EXCEPT ![p.my_id] = @ + 1]
    ELSE [run EXCEPT ![p.my_id] = 0]

\* the same with the decisions made while Dead left aside
SearchedAfter(run, p) ==
    IF p.my_state = "Dead" THEN run
    ELSE RunAfter(run, p)

HungerInit ==
    /\ pos = [a \in AgentIds |-> SpawnPoint]
    /\ carrying = [a \in AgentIds |-> FALSE]
    /\ target = [a \in AgentIds |-> NoTarget]
    /\ seen = [a \in AgentIds |-> ItemIds]
    /\ missing = {}
    /\ order = FirstOrder
    /\ deposites \in ZoneLists
    /\ events = 0
    /\ pc = "call"
    /\ pending = {}
    /\ all_agents = << >>
    /\ all_decisions = << >>
    /\ call = [fn |-> "hunger"]
    /\ result = [fn |-> "hunger", calls |-> 0, state |-> HungerEmpty,
                 run |-> [a \in HungerIds |-> 0],
                 searched |-> [a \in HungerIds |-> 0],
                 before |-> HungerEmpty]

\* decide_action(perception), for any agent, any perception and any draw
HungerDecide ==
    /\ call.fn = "hunger"
    /\ \E p \in HungerPerceptions :
          /\ InRun(p) => result.run[p.my_id] < MaxRun
          /\ (InRun(p) /\ p.my_state # "Dead") => result.searched[p.my_id] < MaxRun
          /\ \E draw \in Draws(p) :
                LET r == hunger_decide_action(result.state, p, draw)
                IN  /\ call' = [fn |-> "hunger", p |-> p, draw |-> draw]
                    /\ result' = [fn |-> "hunger", calls |-> 1,
                                  state |-> r.state, decision |-> r.decision,
                                  run |-> RunAfter(result.run, p),
                                  searched |-> SearchedAfter(result.searched, p),
                                  before |-> result.state]
    /\ UNCHANGED << world, batch >>

HungerNext ==
    \/ HungerDecide

HungerSpec == HungerInit /\ [][HungerNext]_vars

\* ------------------------------------------------------------------ claims
\* The perception agent a was given in the running batch: the world does not
\* change between DecideAllStart and HostCommit.
Given(a) == Perception(a, BuildAllAgents)

InBatch == pc \in {"batch", "returned"}

ItemPos(i) == ItemList[CHOOSE k \in 1..Len(ItemList) : ItemList[k].id = i].pos

\* Item ids held as current target by an agent of the snapshot.
HeldInSnapshot == {target[c] : c \in AgentIds} \ {NoTarget}

\* An agent that is not carrying and holds no target in the snapshot.
Idle(a) == ~carrying[a] /\ target[a] = NoTarget

\* C1: in a finished pass over one consistent snapshot, no two agents return
\* the same item id as target_id unless that item was already held in the
\* snapshot.
C1_NoDuplicateClaim ==
    pc = "returned" =>
        \A a, b \in AgentIds :
            (/\ a # b
             /\ all_decisions[a].target_id # NoTarget
             /\ all_decisions[a].target_id = all_decisions[b].target_id)
            => all_decisions[a].target_id \in HeldInSnapshot

\* C2: of two idle agents a, b whose squared distances to a visible,
\* unheld item i are equal within the 1% tolerance, the one with the smaller
\* id gets i and the other does not.  The case is taken at its most
\* favourable: a has the smaller id in string and in numeric order, i is the
\* nearest item of a, and no third agent is nearer to i than a or as near
\* with a smaller id.
C2_Case(a, b, i) ==
    /\ a # b /\ Idle(a) /\ Idle(b)
    /\ missing = {}
    /\ i \in seen[a] /\ i \in seen[b] /\ i \notin HeldInSnapshot
    /\ IsClose(Dist2(ItemPos(i), pos[a]), Dist2(ItemPos(i), pos[b]))
    /\ StrLess(a, b) /\ a < b
    /\ \A j \in seen[a] : Dist2(ItemPos(i), pos[a]) <= Dist2(ItemPos(j), pos[a])
    /\ \A c \in AgentIds \ {a, b} :
          Idle(c) =>
             /\ Dist2(ItemPos(i), pos[c]) >= Dist2(ItemPos(i), pos[a])
             /\ Dist2(ItemPos(i), pos[c]) = Dist2(ItemPos(i), pos[a]) => StrLess(a, c)

C2_SmallerIdWins ==
    pc = "returned" =>
        \A a, b \in AgentIds : \A i \in ItemIds :
            C2_Case(a, b, i) =>
                /\ all_decisions[a].target_id = i
                /\ all_decisions[b].target_id # i

\* Two non-carrying agents hold the same item as their target.
DuplicateHeld ==
    \E a, b \in AgentIds :
        a # b /\ ~carrying[a] /\ ~carrying[b]
             /\ target[a] # NoTarget /\ target[a] = target[b]

\* C3: a duplicate is resolved over the ticks: a tick that starts with two
\* non-carrying agents holding the same item never ends with every agent
\* holding what it held before.  (Such a tick is a steady state: decide_all
\* is a function of the snapshot, so it repeats for as long as the world
\* stays as it is, and the duplicate lasts.)
C3_Convergence ==
    [][(pc = "returned" /\ pc' = "idle" /\ DuplicateHeld) => target' # target]_vars

\* C4: the target_id an agent gets is never an item that another agent of
\* the snapshot holds as its current target.
C4_TargetNotReserved ==
    InBatch =>
        \A a \in DOMAIN all_decisions :
            all_decisions[a].target_id \notin
                {target[c] : c \in AgentIds \ {a}} \ {NoTarget}

\* The previous target of a is still visible to it and held by no peer.
C5_Case(a) ==
    /\ ~carrying[a]
    /\ target[a] \in seen[a]
    /\ \A c \in AgentIds \ {a} : target[c] # target[a]

Alone(a) == DecideOne(<< >>, a, Given(a))[a]

C8_Faulty(a) ==
    /\ ~carrying[a]
    /\ target[a] \notin seen[a]
    /\ seen[a] \ {target[c] : c \in AgentIds \ {a}} # {}
    /\ \E c \in missing \ {a} : Idle(c)

\* C8: decide_all returns one decision per agent of its input; an agent for
\* which decide_action raises gets the safe decision, every other agent the
\* decision of its own decide_action call.
C8_FaultIsolation ==
    pc = "returned" =>
        /\ DOMAIN all_decisions = AgentIds
        /\ \A a \in AgentIds :
              IF C8_Faulty(a)
              THEN all_decisions[a] =
                      [movement_type |-> "stop", target_pos |-> << 0, 0 >>,
                       avoid |-> << 0, 0 >>,
                       action_type |-> "none", target_id |-> "0"]
              ELSE /\ ~decide_action(Given(a)).raised
                   /\ all_decisions[a] = decide_action(Given(a)).decision

\* Witness of C8: decide_action raised for one agent of a finished batch and
\* another agent of it got a target.
C8_Witness ==
    /\ pc = "returned"
    /\ \E a, b \in AgentIds :
          /\ C8_Faulty(a) /\ decide_action(Given(a)).raised
          /\ ~C8_Faulty(b) /\ all_decisions[b].target_id # NoTarget

\* a ran the tournament and won no item.
C9_NoWinner(a) ==
    /\ ~carrying[a]
    /\ target[a] \notin seen[a]
    /\ ~RunTournament(Given(a)).won

\* C9: an agent that is carrying, or that finds no winning candidate, gets
\* target_id "0".
C9_UnsetTarget ==
    InBatch =>
        \A a \in DOMAIN all_decisions :
            (carrying[a] \/ C9_NoWinner(a)) => all_decisions[a].target_id = NoTarget

\* Witness of C9: a carrying agent that still sees the item it held gets
\* "0", and an idle agent with a candidate in view wins none and gets "0".
C9_Witness ==
    /\ pc = "returned"
    /\ \E a, b \in AgentIds :
          /\ carrying[a] /\ target[a] \in seen[a]
          /\ all_decisions[a].target_id = NoTarget
          /\ C9_NoWinner(b) /\ missing = {}
          /\ seen[b] \ HeldInSnapshot # {}
          /\ all_decisions[b].target_id = NoTarget

\* C10: a non-carrying agent with no item in view gets target_id "0" and
\* the spawn position as target, by a normal return of decide_action
\* (movement walk, not the stop of the except branch).
C10_NoVisibleItems ==
    InBatch =>
        \A a \in DOMAIN all_decisions :
            (~carrying[a] /\ seen[a] = {}) =>
                /\ all_decisions[a].movement_type = "walk"
                /\ all_decisions[a].target_pos = SpawnPoint
                /\ all_decisions[a].action_type = "none"
                /\ all_decisions[a].target_id = NoTarget

\* Witness of C10: an agent that held a target sees no item any more, is
\* away from its spawn position, and an idle peer's entry lacks x and z.
C10_Witness ==
    /\ pc = "returned"
    /\ \E a \in AgentIds :
          /\ ~carrying[a] /\ seen[a] = {} /\ target[a] # NoTarget
          /\ pos[a] # SpawnPoint
          /\ \E c \in missing \ {a} : Idle(c)
          /\ all_decisions[a].target_id = NoTarget

\* a is carrying and its delivery-zone list is empty.
C11_Case(a) == carrying[a] /\ Len(deposites) = 0

\* C11 as stated: a carrying agent whose delivery-zone list is empty keeps
\* its last valid destination as target position and decide_action does not
\* raise.  The target id an agent holds was returned by its last decision
\* together with that item's position, so the last destination of an agent
\* that holds a target is the position of that item.
C11_RetainsLastDestination ==
    InBatch =>
        \A a \in DOMAIN all_decisions :
            (C11_Case(a) /\ target[a] # NoTarget) =>
                /\ ~decide_action(Given(a)).raised
                /\ all_decisions[a].target_pos = ItemPos(target[a])

\* C11 amended: a carrying agent whose delivery-zone list is empty gets the
\* spawn position as target position and target_id "0", and decide_action
\* does not raise.
C11_SpawnWithoutZones ==
    InBatch =>
        \A a \in DOMAIN all_decisions :
            C11_Case(a) =>
                /\ ~decide_action(Given(a)).raised
                /\ all_decisions[a].target_pos = SpawnPoint
                /\ all_decisions[a].target_id = NoTarget

\* Witness of C11: an agent that just picked up the item it held decides
\* with no delivery zone, away from its spawn position.
C11_Witness ==
    /\ pc = "returned"
    /\ \E a \in AgentIds :
          /\ C11_Case(a) /\ target[a] # NoTarget
          /\ pos[a] # SpawnPoint /\ ItemPos(target[a]) # SpawnPoint
          /\ all_decisions[a].target_pos = SpawnPoint

\* a is carrying and has at least one delivery zone.
C12_Case(a) == carrying[a] /\ Len(deposites) > 0

\* C12: a carrying agent with at least one delivery zone gets as target
\* position the zone at minimal squared distance from its own position, the
\* first such zone of the list when several are equally near; the visible
\* items, the peers and its previous target play no part.
C12_NearestZoneFirst ==
    InBatch =>
        \A a \in DOMAIN all_decisions :
            C12_Case(a) =>
                \E k \in 1..Len(deposites) :
                    /\ all_decisions[a].target_pos = deposites[k]
                    /\ \A j \in 1..Len(deposites) :
                          Dist2(deposites[k], pos[a]) <= Dist2(deposites[j], pos[a])
                    /\ \A j \in 1..(k - 1) :
                          Dist2(deposites[j], pos[a]) > Dist2(deposites[k], pos[a])

\* Witness of C12: a carrying agent exactly between two zones, which still
\* holds a target and sees items, gets the first zone of the list.
C12_Witness ==
    /\ pc = "returned"
    /\ \E a \in AgentIds :
          /\ C12_Case(a) /\ Len(deposites) > 1
          /\ Dist2(deposites[1], pos[a]) = Dist2(deposites[2], pos[a])
          /\ target[a] # NoTarget /\ seen[a] # {}
          /\ all_decisions[a].target_pos = deposites[1]

\* C13: a decision returned by decide_action is pick_up with movement stop
\* exactly when the agent is not carrying, the decision has a target, and
\* the agent's distance to that target item is below the pickup threshold.
C13_PickUpIffNearTarget ==
    InBatch =>
        \A a \in DOMAIN all_decisions :
            ~decide_action(Given(a)).raised =>
                LET d == all_decisions[a] IN
                (d.action_type = "pick_up" /\ d.movement_type = "stop")
                <=> (/\ ~carrying[a]
                     /\ d.target_id # NoTarget
                     /\ Dist2(ItemPos(d.target_id), pos[a]) < PickupThresholdSq)

\* a stands within the drop threshold of one of its delivery zones.
C14_InZone(a) ==
    \E k \in 1..Len(deposites) :
        100 * Dist2(deposites[k], pos[a]) < DropThresholdSqPct

\* C14: a decision returned by decide_action is drop_off with movement stop
\* exactly when the agent is carrying and its distance to the nearest
\* delivery zone is below the drop threshold; drop_off is never returned at
\* a position that is not within the drop threshold of a delivery zone.
C14_DropOffIffInZone ==
    InBatch =>
        \A a \in DOMAIN all_decisions :
            ~decide_action(Given(a)).raised =>
                LET d == all_decisions[a] IN
                (d.action_type = "drop_off" /\ d.movement_type = "stop")
                <=> (carrying[a] /\ C14_InZone(a))

\* An obstacle or a peer stands exactly where a stands.
C15_OnTop(a) ==
    \/ \E k \in 1..Len(ObstacleList) : ObstacleList[k] = pos[a]
    \/ \E c \in AgentIds \ {a} : PeerPos(Entry(c)) = pos[a]

\* The perception of a without the obstacles and peers that stand on it.
C15_Apart(a) ==
    [Given(a) EXCEPT
        !.obstacles = SelectSeq(@, LAMBDA o : o # pos[a]),
        !.all_agents = SelectSeq(@, LAMBDA e : e.id = a \/ PeerPos(e) # pos[a])]

\* The decision is the except branch's: no decision returned by
\* decide_action has movement stop with action none.
C15_Fault(d) == d.movement_type = "stop" /\ d.action_type = "none"

\* C15: when an obstacle or a peer stands exactly on the agent, the division
\* by the distance is not carried out for it: decide_action does not raise
\* for that reason (the tournament's fault of C8 aside), the offset it
\* returns is the one it would return with the coinciding obstacles and
\* peers taken away, and that offset is bounded by the reach of the
\* remaining ones.
C15_ZeroDistanceGuard ==
    InBatch =>
        \A a \in DOMAIN all_decisions :
            (C15_OnTop(a) /\ ~C8_Faulty(a)) =>
                /\ ~C15_Fault(all_decisions[a])
                /\ all_decisions[a].avoid = Avoidance(C15_Apart(a)).off
                /\ \A i \in 1..2 :
                      Abs(all_decisions[a].avoid[i])
                          <= 3 * Len(ObstacleList) + 2 * Cardinality(AgentIds)

\* Witness of C15: an agent stands on an obstacle and on a peer, a second
\* obstacle within reach pushes it, and its decision carries that push.
C15_Witness ==
    /\ pc = "returned"
    /\ \E a \in AgentIds :
          /\ \E k \in 1..Len(ObstacleList) : ObstacleList[k] = pos[a]
          /\ \E c \in AgentIds \ {a} : c \notin missing /\ pos[c] = pos[a]
          /\ all_decisions[a].avoid # << 0, 0 >>
          /\ all_decisions[a].target_id # NoTarget

\* C16: every decision returned by decide_action has movement type walk or
\* stop and action type none, pick_up or drop_off; the movement type is
\* stop exactly when the action is pick_up or drop_off; pick_up comes only
\* for an agent that is not carrying and drop_off only for one that is.
C16_DecisionShape ==
    InBatch =>
        \A a \in DOMAIN all_decisions :
            ~C8_Faulty(a) =>
                LET d == all_decisions[a] IN
                /\ d.movement_type \in {"walk", "stop"}
                /\ d.action_type \in {"none", "pick_up", "drop_off"}
                /\ d.movement_type = "stop" <=> d.action_type \in {"pick_up", "drop_off"}
                /\ d.action_type = "pick_up" => ~carrying[a]
                /\ d.action_type = "drop_off" => carrying[a]

\* Witness of C16: one finished batch returns a drop_off, a pick_up and a
\* walk with no action, all three by decide_action.
C16_Witness ==
    /\ pc = "returned"
    /\ \A a \in AgentIds : ~C8_Faulty(a)
    /\ \E a, b, c \in AgentIds :
          /\ all_decisions[a].action_type = "drop_off"
          /\ all_decisions[b].action_type = "pick_up"
          /\ all_decisions[c].action_type = "none"
          /\ all_decisions[c].movement_type = "walk"

\* a runs the tournament: it is not carrying and does not keep a target.
C17_Runs(a) == ~carrying[a] /\ target[a] \notin seen[a]

\* The candidates of a: the items it sees that no other agent holds.
C17_Candidates(a) == seen[a] \ {target[c] : c \in AgentIds \ {a}}

\* Peer c takes item i from a: c is eligible and is strictly closer to i, or
\* as close within the tolerance with the smaller id.
C17_Takes(c, a, i) ==
    /\ c # a /\ Idle(c)
    /\ \/ Dist2(ItemPos(i), pos[c]) < Dist2(ItemPos(i), pos[a])
       \/ /\ IsClose(Dist2(ItemPos(i), pos[c]), Dist2(ItemPos(i), pos[a]))
          /\ StrLess(c, a)

\* The candidates no eligible peer takes from a.
C17_Winnable(a) ==
    {i \in C17_Candidates(a) : \A c \in AgentIds : ~C17_Takes(c, a, i)}

\* C17: when the tournament runs, the returned target is the nearest of the
\* candidates that no eligible peer of the snapshot takes from the agent
\* ("0" when there is none); the agent never gets a candidate to which an
\* eligible peer is strictly closer.
C17_TournamentRule ==
    (InBatch /\ missing = {}) =>
        \A a \in DOMAIN all_decisions :
            C17_Runs(a) =>
                LET i == all_decisions[a].target_id IN
                IF C17_Winnable(a) = {} THEN i = NoTarget
                ELSE /\ i \in C17_Winnable(a)
                     /\ \A j \in C17_Winnable(a) :
                           Dist2(ItemPos(i), pos[a]) <= Dist2(ItemPos(j), pos[a])

\* Some agent is idle and some item nobody holds is seen by every idle agent.
C18_Case ==
    /\ \E a \in AgentIds : Idle(a)
    /\ \E i \in ItemIds \ HeldInSnapshot :
          \A a \in AgentIds : Idle(a) => i \in seen[a]

\* C18: in a finished pass over one consistent snapshot with an idle agent
\* and an unheld item that every idle agent sees, at least one agent returns
\* a target.
C18_TournamentProgress ==
    (pc = "returned" /\ missing = {} /\ C18_Case) =>
        \E a \in AgentIds : all_decisions[a].target_id # NoTarget

\* Item i is held as current target by an agent other than a in the
\* snapshot.
C19_HeldByOther(a, i) == i # NoTarget /\ \E c \in AgentIds \ {a} : target[c] = i

\* C19: an item that some other agent holds as current target in the
\* snapshot of a tick is not returned as target to an agent whose own
\* previous target is not that item.
C19_NoNewClaimOnHeld ==
    InBatch =>
        \A a \in DOMAIN all_decisions :
            C19_HeldByOther(a, all_decisions[a].target_id)
            => target[a] = all_decisions[a].target_id

\* Witness of C19: an idle agent sees an item that one peer holds and keeps,
\* stands on it, nearer than every other agent, and does not get it.
C19_Witness ==
    /\ pc = "returned"
    /\ \E a, c \in AgentIds, i \in ItemIds :
          /\ a # c /\ Idle(a) /\ i \in seen[a] /\ missing = {}
          /\ target[c] = i /\ all_decisions[c].target_id = i
          /\ \A b \in AgentIds \ {a, c} : target[b] # i
          /\ pos[a] = ItemPos(i)
          /\ \A b \in AgentIds \ {a} : pos[b] # ItemPos(i)
          /\ all_decisions[a].target_id # i

\* a is not carrying and holds a target that is not among the items it sees.
C20_Stale(a) == ~carrying[a] /\ target[a] # NoTarget /\ target[a] \notin seen[a]

\* The perception of a with current_target_id unset.
C20_Unset(a) == [Given(a) EXCEPT !.current_target_id = NoTarget]

\* C20: for a non-carrying agent whose current_target_id names an item it
\* does not see, decide_action gives exactly what it gives for the same
\* perception with current_target_id "0".
C20_StaleTargetReevaluated ==
    InBatch =>
        \A a \in DOMAIN all_decisions :
            C20_Stale(a) =>
                all_decisions[a] = DecideOne(<< >>, a, C20_Unset(a))[a]

\* Witness of C20: an agent that lost sight of the item it held gets
\* another item in the same tick.
C20_Witness ==
    /\ pc = "returned"
    /\ \E a \in AgentIds :
          /\ C20_Stale(a)
          /\ all_decisions[a].target_id \in seen[a]

\* The perception of a in which every peer that is carrying or holds a
\* target stands at q.
C21_Moved(a, q) ==
    [Given(a) EXCEPT
        !.all_agents = [k \in 1..Len(@) |->
                           IF @[k].id # a /\ ~Idle(@[k].id)
                           THEN [@[k] EXCEPT !.pos = q, !.hasPos = TRUE]
                           ELSE @[k]]]

\* C21: a peer that is carrying, or that holds a target in the snapshot,
\* takes no candidate from the agent wherever it stands: the target of an
\* agent that runs the tournament is the one it gets with each such peer
\* standing on either item.
C21_OnlyEligibleCompete ==
    pc = "returned" =>
        \A a \in AgentIds :
            (C17_Runs(a) /\ ~C8_Faulty(a)) =>
                \A k \in 1..Len(ItemList) :
                    /\ ~ChooseTarget(C21_Moved(a, ItemList[k].pos)).raised
                    /\ all_decisions[a].target_id
                          = ChooseTarget(C21_Moved(a, ItemList[k].pos)).id

\* Witness of C21: an agent runs the tournament and gets an item on which a
\* carrying peer stands and to which a peer that holds another item is
\* strictly closer.
C21_Witness ==
    /\ pc = "returned"
    /\ \E a, b, c \in AgentIds :
          /\ C17_Runs(a) /\ all_decisions[a].target_id # NoTarget
          /\ carrying[b]
          /\ pos[b] = ItemPos(all_decisions[a].target_id)
          /\ ~carrying[c] /\ target[c] \notin {NoTarget, all_decisions[a].target_id}
          /\ Dist2(ItemPos(all_decisions[a].target_id), pos[c])
                < Dist2(ItemPos(all_decisions[a].target_id), pos[a])

\* The perception of a without its own entry in all_agents.
C22_WithoutSelf(a) ==
    [Given(a) EXCEPT !.all_agents = SelectSeq(@, LAMBDA e : e.id # a)]

\* The perception of a whose own entry in all_agents holds item i.
C22_SelfHolding(a, i) ==
    [Given(a) EXCEPT
        !.all_agents = [k \in 1..Len(@) |->
                           IF @[k].id = a
                           THEN [@[k] EXCEPT !.current_target_id = i]
                           ELSE @[k]]]

C23_Reversed(a) ==
    [Given(a) EXCEPT !.all_agents = [k \in 1..Len(@) |-> @[Len(@) + 1 - k]]]

\* C23: the target decide_action returns does not depend on the order in
\* which all_agents enumerates the peers: the same entries in reverse
\* order give the same target.
C23_PeerOrderIndependent ==
    (pc = "returned" /\ missing = {}) =>
        \A a \in AgentIds :
            all_decisions[a].target_id = ChooseTarget(C23_Reversed(a)).id

\* C24: the movement type of a decision returned by decide_action depends
\* on the distance from the agent to the chosen target position (before the
\* avoidance offset) only: stop when that distance is below the threshold
\* (here below both 0.6 and 1.0), walk when it is above (above both).
C24_MovementByDistance ==
    InBatch =>
        \A a \in DOMAIN all_decisions :
            ~C8_Faulty(a) =>
                LET d == all_decisions[a] IN
                /\ 100 * Dist2(d.target_pos, pos[a]) < DropThresholdSqPct
                      => d.movement_type = "stop"
                /\ Dist2(d.target_pos, pos[a]) > PickupThresholdSq
                      => d.movement_type = "walk"

\* One entity's contribution to component i of the field, in parts of
\* 1 / OffsetUnit: normalize(self - other) * strength * (R - d) / R when
\* 0 < d < R, nothing otherwise, for R = rn / rd and strength = sn / sd.
C25_Vector(self, other, i, rn, rd, sn, sd) ==
    LET d2 == Dist2(self, other)
    IN  IF 0 < d2 /\ d2 * rd * rd < rn * rn * Unit * Unit
        THEN ((self[i] - other[i]) * sn * (rn * Unit - rd * Root(d2)) * OffsetUnit)
                 \div (Root(d2) * sd * rn * Unit)
        ELSE 0

RECURSIVE C25_Sum(_, _, _, _, _, _, _, _)
C25_Sum(self, others, k, i, rn, rd, sn, sd) ==
    IF k = 0 THEN 0
    ELSE C25_Sum(self, others, k - 1, i, rn, rd, sn, sd)
             + C25_Vector(self, others[k], i, rn, rd, sn, sd)

C25_Peers(p) ==
    LET others == SelectSeq(p.all_agents, LAMBDA e : e.id # p.my_id)
    IN  [k \in 1..Len(others) |-> PeerPos(others[k])]

C25_Field(p, i) ==
    C25_Sum(p.my_pos, p.obstacles, Len(p.obstacles), i, 3, 2, 3, 2)
        + C25_Sum(p.my_pos, C25_Peers(p), Len(C25_Peers(p)), i, 1, 2, 1, 1)

C26_Input == Perception(call.a, BuildAllAgents)

C27_MissingValuesDefaulted ==
    (result.fn = "decide_action" /\ missing # {}) => ~result.value.raised

\* the peers the called robot competes with
C28_Rivals ==
    {b \in AgentIds \ {call.a} : Idle(b)}

\* The called robot runs the tournament and every rival is exactly as far
\* from its nearest available item as it is itself.
C28_Tied ==
    /\ result.fn = "decide_action"
    /\ ~carrying[call.a]
    /\ target[call.a] \notin seen[call.a]
    /\ AvailableItems(C26_Input) # << >>
    /\ C28_Rivals # {}
    /\ missing \cap C28_Rivals = {}
    /\ \A b \in C28_Rivals :
          Dist2(AvailableItems(C26_Input)[1].pos, pos[b])
              = Dist2(AvailableItems(C26_Input)[1].pos, pos[call.a])

\* C28: the tie-break of the tournament orders ids by the integer after
\* "Robot_" (Robot_2 before Robot_10): of robots equally far from an item,
\* the one with the smallest number takes it.
C28_NumericTieBreak ==
    C28_Tied =>
        /\ ~result.value.raised
        /\ (result.value.decision.target_id = AvailableItems(C26_Input)[1].id)
               <=> (\A b \in C28_Rivals : get_id_int(call.a) < get_id_int(b))

\* C29: a target_id other than "0" returned by decide_action is the id of
\* an item the robot sees in that tick, and the target position, before the
\* avoidance offset is added, is the position of that item.
C29_TargetIsVisibleItem ==
    (result.fn = "decide_action" /\ ~result.value.raised) =>
        LET d == result.value.decision
        IN  d.target_id # NoTarget =>
                /\ \E k \in 1..Len(C26_Input.items) :
                       /\ C26_Input.items[k].id = d.target_id
                       /\ C26_Input.items[k].pos = d.target_pos
                /\ d.target_id \in seen[call.a]

\* a robot that sees both items keeps the second one of its list as target
C29_Witness ==
    /\ result.fn = "decide_action"
    /\ ~result.value.raised
    /\ seen[call.a] = ItemIds
    /\ result.value.decision.target_id = "2"
    /\ result.value.decision.target_pos = C26_Input.items[2].pos
    /\ target[call.a] = "2"

\* the agents of a batch for which decide_action raised
C30_Ids == {call.all_perceptions[k].my_id : k \in 1..Len(call.all_perceptions)}

C30_Failed(p) ==
    \/ ~(RequiredKeys \subseteq p.keys)
    \/ /\ p.is_contagious
       /\ p.health >= QUARANTINE_HEALTH_THRESHOLD
       /\ ~(ContagiousKeys \subseteq p.keys)

\* C30: decide_all of gathering_behavior returns a decision for every agent
\* of its input even when decide_action raises for one of them, whatever
\* the cause, a missing key of the perception included: the failed agent
\* gets stop/none and the others are still decided.
C30_GatheringFaultIsolation ==
    (result.fn = "decide_all" /\ result.pc # "loop") =>
        /\ result.pc = "returned"
        /\ DOMAIN result.all_decisions = C30_Ids
        /\ \A k \in 1..Len(call.all_perceptions) :
              C30_Failed(call.all_perceptions[k]) =>
                  LET d == result.all_decisions[call.all_perceptions[k].my_id]
                  IN  d.movement_type = "stop" /\ d.action_type = "none"

\* the same, for faults that leave my_x and my_z in the perception
C30_IsolatedWhenPositionKnown ==
    (result.fn = "decide_all" /\ result.pc # "loop"
        /\ \A k \in 1..Len(call.all_perceptions) :
               ~HandlerRaises(call.all_perceptions[k])) =>
        /\ result.pc = "returned"
        /\ DOMAIN result.all_decisions = C30_Ids
        /\ \A k \in 1..Len(call.all_perceptions) :
              C30_Failed(call.all_perceptions[k]) =>
                  LET d == result.all_decisions[call.all_perceptions[k].my_id]
                  IN  d.movement_type = "stop" /\ d.action_type = "none"

\* C31: a leader merges into a nearby leader M only if the group size
\* recorded for M is strictly larger than its own, or equal to its own with
\* M's id lower; never into a smaller group or an equal one with a higher
\* id; and M stays a leader, it does not merge into the agent in turn.
C31_MergeRule ==
    [][ (/\ call'.fn = "flock"
         /\ result.state.group_memberships[call'.my_id] = NoId
         /\ result'.state.group_memberships[call'.my_id] # NoId) =>
            LET a == call'.my_id
                M == result'.state.group_memberships[a]
                mine == FollowerCount(result.state, a) + 1
            IN  /\ M # a
                /\ InAllAgents(call'.keys, M)
                /\ Dist2(call'.at[a], call'.at[M])
                       <= MEETING_DISTANCE * MEETING_DISTANCE
                /\ result.state.leader_data[M] # 0
                /\ \/ result.state.leader_data[M] > mine
                   \/ result.state.leader_data[M] = mine /\ M < a
                /\ result'.state.leader_data[M] # 0
                /\ result'.state.group_memberships[M] = NoId ]_vars

\* agent 1, alone, has merged into the higher id 2, whose group of two was
\* larger, and the group now counts three
C31_Witness ==
    /\ result.fn = "flock"
    /\ result.calls = 1
    /\ call.my_id = 1
    /\ result.merged = 2
    /\ result.my_group_size = 1
    /\ result.state.group_memberships[3] = 2
    /\ result.state.leader_data[2] = 3

\* C32: after any sequence of flock decide_action calls no agent is both a
\* follower and a leader, every follower's leader is a key of leader_data
\* (no chains, no cycles), and after a merge nobody has the merged leader as
\* its leader.
C32_FlockStructure ==
    (result.fn = "flock") =>
        LET gm == result.state.group_memberships
            ld == result.state.leader_data
        IN  /\ \A a \in FlockIds : ~(gm[a] # NoId /\ ld[a] # 0)
            /\ \A f \in FlockIds : gm[f] # NoId => ld[gm[f]] # 0
            /\ \A f \in FlockIds : gm[f] # NoId => gm[gm[f]] = NoId
            /\ (result.calls = 1 /\ result.merged # NoId) =>
                   /\ ld[call.my_id] = 0
                   /\ \A f \in FlockIds : gm[f] # call.my_id

\* leader 2 with its follower 3 has merged into leader 1, and 3 follows 1
C32_Witness ==
    /\ result.fn = "flock"
    /\ result.calls = 1
    /\ call.my_id = 2
    /\ result.merged = 1
    /\ result.my_group_size = 2
    /\ result.state.group_memberships[3] = 1
    /\ result.state.group_memberships[2] = 1

\* C33: an id once in dead_agents is never removed, every later decision
\* for it is the stop/none response, no kill action targets an agent that
\* is already in dead_agents, and so no prey is the target of more than one
\* kill action over the whole run.
C33_DeathAbsorbing ==
    [][ (call'.fn = "predator_prey" /\ result'.calls = 1) =>
            /\ result.state.dead_agents \subseteq result'.state.dead_agents
            /\ call'.my_id \in result.state.dead_agents =>
                   /\ result'.decision.movement_type = "stop"
                   /\ result'.decision.action_type = "none"
                   /\ result'.state = result.state
            /\ result'.decision.action_type = "kill" =>
                   /\ result'.decision.target_id \notin result.state.dead_agents
                   /\ result'.decision.target_id \in result'.state.dead_agents
            /\ \A p \in Preys : result'.kills[p] <= 1 ]_vars

\* the prey was killed once, by predator 2, predator 1 has starved, and the
\* dead prey, asked again, stops
C33_Witness ==
    /\ result.fn = "predator_prey"
    /\ result.calls = 1
    /\ call.my_id = 3
    /\ result.state.dead_agents = {1, 3}
    /\ result.kills[3] = 1
    /\ result.state.predator_energy[1] <= 0
    /\ result.state.predator_energy[2] > 10 * PREDATOR_INITIAL_ENERGY
    /\ result.decision = stop_response

\* One decision of a search run, k decisions of the run having come before:
\* it looks from the search centre in direction base_angle + (k mod 4) * 90
\* degrees, the step counter stays in 0..3, and the centre and the base
\* angle are replaced after this decision exactly when it is a 4th one.
C34_Cycle(k) ==
    LET a == call'.p.my_id
        before == result.state.search_data[a]
        after == result'.state.search_data[a]
        center == IF before = NoSearch THEN call'.p.my_pos ELSE before.center
        base == IF before = NoSearch THEN call'.draw.base ELSE before.base_angle
    IN  /\ result'.decision.look =
               [from |-> center,
                angle |-> (base + (k % SEARCH_DIRECTIONS) * ANGLE_PER_STEP) % 360]
        /\ after.step \in 0..(SEARCH_DIRECTIONS - 1)
        /\ IF (k + 1) % SEARCH_DIRECTIONS = 0
           THEN after.center = call'.p.my_pos /\ after.base_angle = call'.draw.base
           ELSE after.center = center /\ after.base_angle = base

\* C34: during an uninterrupted run of decisions in which the agent is
\* hungry and sees no food, the k-th decision (from 0) looks in direction
\* base_angle + (k mod 4) * 90 degrees from the search centre, the step
\* counter stays in 0..3 and the centre and base angle are replaced exactly
\* after every 4th decision.
C34_SearchCycle ==
    [][ (call'.fn = "hunger" /\ result'.calls = 1 /\ InRun(call'.p)) =>
            C34_Cycle(result.run[call'.p.my_id]) ]_vars

\* C34 amended: the same for the decisions made while the agent is not
\* Dead; a decision made while Dead returns stop/none and neither advances
\* nor interrupts the cycle.
C34_LivingSearchCycle ==
    [][ (call'.fn = "hunger" /\ result'.calls = 1) =>
            /\ (InRun(call'.p) /\ call'.p.my_state # "Dead") =>
                   C34_Cycle(result.searched[call'.p.my_id])
            /\ call'.p.my_state = "Dead" =>
                   /\ result'.state = result.state
                   /\ result'.decision.movement_type = "stop"
                   /\ result'.decision.action_type = "none"
                   /\ result'.decision.look = NoLook ]_vars

\* the fifth search decision of a living agent, made after a Dead decision
\* in between, looks along the new base angle from the new centre
C34_Witness ==
    /\ result.fn = "hunger"
    /\ result.calls = 1
    /\ result.searched[1] = 5
    /\ result.run[1] < 5
    /\ call.p.my_state = "Alive"
    /\ result.state.search_data[1].step = 1
    /\ result.state.search_data[1].base_angle = 300
    /\ result.state.search_data[1].center = << 5, 5 >>
    /\ result.decision.look = [from |-> << 5, 5 >>, angle |-> 300]

\* C35: after any sequence of hunger decide_action calls no agent id is at
\* once in search_data and in behavior_timers or wander_targets, and an id
\* is in wander_targets exactly when it is in behavior_timers.
C35_ModeExclusive ==
    (result.fn = "hunger") =>
        \A a \in HungerIds :
            /\ ~(/\ result.state.search_data[a] # NoSearch
                 /\ \/ result.state.behavior_timers[a] # NoTimer
                    \/ a \in result.state.wander_targets)
            /\ (a \in result.state.wander_targets)
                   <=> (result.state.behavior_timers[a] # NoTimer)

\* an agent that was wandering with a running timer got hungry and has
\* started a search
C35_Witness ==
    /\ result.fn = "hunger"
    /\ result.calls = 1
    /\ result.before.behavior_timers[1] > 0
    /\ 1 \in result.before.wander_targets
    /\ result.state.search_data[1] # NoSearch
    /\ result.state.search_data[1].step = 1
    /\ result.state.behavior_timers[1] = NoTimer
    /\ result.state.wander_targets = {}

\* C36: choose_new_poi never returns the point of interest the agent is
\* currently at: for every current_poi that is not None and every value of
\* the random draw, end points included, the returned point's name differs
\* from the name of current_poi.
C36_NeverCurrentPoi ==
    (result.fn = "choose_new_poi" /\ call.current_poi # NoPoi)
        => result.value.name # call.current_poi.name

\* the same for every draw above the lower end point of the range
C36_NeverCurrentAboveZero ==
    (result.fn = "choose_new_poi" /\ call.current_poi # NoPoi /\ call.rand > 0)
        => result.value.name # call.current_poi.name

\* the draw 0 returns the current point only when it is the first of the list
C36_OnlyFirstAtZero ==
    (/\ result.fn = "choose_new_poi"
     /\ call.current_poi # NoPoi
     /\ result.value.name = call.current_poi.name)
        => (call.rand = 0 /\ call.current_poi = POINTS_OF_INTEREST[1])

====
